---- MODULE Spec2Model ----
(***************************************************************************)
(* Model of the miniblock fetcher of consensus/fetcher.rs: the two run     *)
(* modes (run_p2p, run_centralized), the background sync-state poller, the *)
(* fork monitor, and the bounded, ordered fetch pipeline fetch_blocks      *)
(* with its producer task, per-block fetch tasks and consumer loop.        *)
(*                                                                         *)
(* Structured concurrency (scope::run!) is modelled as the code uses it:   *)
(* a scope records the FIRST error returned by any of its tasks, an error  *)
(* or the completion of the root task cancels the scope's context, and the *)
(* scope returns only when every task has terminated.                      *)
(*                                                                         *)
(* The module also models two parts of api_server/execution_sandbox:       *)
(* the VmConcurrencyLimiter with its VmPermit handles and its              *)
(* VmConcurrencyBarrier (LimiterSpec, LimiterLiveSpec), and the pruning    *)
(* check of BlockStartInfo (PruneSpec), and the accumulator               *)
(* MiniblockUpdates of state_keeper/updates (MiniblockSpec).  Each         *)
(* specification runs one part and leaves the variables of the others at   *)
(* their initial values.                                                   *)
(***************************************************************************)
EXTENDS Integers, Sequences, FiniteSets, TLC

\* ---- bounds of the model ------------------------------------------------
\* Highest block number the upstream ever reports/serves.
MaxBlock == 2
\* Highest payload-queue cursor found in local storage at startup.
MaxStart == 1
\* Capacity of the channel of in-flight handles: 30 in the source, scaled
\* down here (the window is then MAX_CONCURRENT_REQUESTS + 2 blocks wide).
MAX_CONCURRENT_REQUESTS == 2

Blocks == 0..MaxBlock
\* genesis.fork.first_block values the main node may announce.
FirstBlocks == {0, MaxBlock + 1}
\* Fork identities, standing for every other field of validator::Genesis.
Forks == {1, 2}
GenesisSet == [fork : Forks, first_block : FirstBlocks]
\* The main node's genesis when the run starts: the fork identities being
\* interchangeable, the run starts on fork 1.
StartGenesisSet == [fork : {1}, first_block : FirstBlocks]
\* No genesis: none captured yet, or a fetch_genesis that returned an error.
NoGenesis == [fork |-> 0, first_block |-> 0]
\* A fetch_l2_block_number that returned an error.
NoHead == -1

\* ---- bounds of the execution sandbox -----------------------------------
\* Highest max_concurrency a VmConcurrencyLimiter is created with.
MaxConcurrency == 2
\* Number of callers of VmConcurrencyLimiter::acquire.
NumCallers == 3
\* Highest number of live handles (the VmPermit and its clones) of a permit.
MaxRefs == 2
\* Highest miniblock the node ever soft-prunes.
MaxPruned == 2
\* Highest block number a request asks for.
MaxNumber == 3

Callers == 1..NumCallers
\* PruningInfo::last_soft_pruned_miniblock: None.
NoPruned == -1
PrunedSet == {NoPruned} \cup (0..MaxPruned)
\* api::BlockId: Number(BlockNumber::Number(n)), the tags of BlockNumber,
\* and Hash(_).
BlockTags == {"Earliest", "Latest", "Pending", "Committed", "Finalized",
              "Hash"}
BlockIds == {[kind |-> "Number", n |-> k] : k \in 0..MaxNumber}
              \cup {[kind |-> t, n |-> 0] : t \in BlockTags}
\* No call of ensure_not_pruned_block yet.
NoBlockId == [kind |-> "none", n |-> 0]
\* A result that carries no miniblock number.
NoFirst == -1
NoResult == [tag |-> "none", first |-> NoFirst]

\* ---- bounds of MiniblockUpdates ----------------------------------------
\* Number of extend_from_* calls made on one accumulator.
MaxCalls == 2
\* Highest number of entries in each vector of a result's logs.
MaxLogs == 1
\* Number of distinct bytecodes.
MaxBytecodes == 1
\* Highest size of the payload of a transaction.
MaxTxData == 1
\* Highest gas count and highest execution metric of one call.
MaxGas == 1

Bytecodes == 1..MaxBytecodes
\* Transaction: its factory deps, and data standing for its other fields.
Transactions == [data : 1..MaxTxData, factory_deps : SUBSET Bytecodes]
\* The transaction slot of a recorded call that has none.
NoTransaction == [data |-> 0, factory_deps |-> {}]
\* All sequences over S of length at most k.
SeqsUpTo(S, k) == UNION {[1..n -> S] : n \in 0..k}

VARIABLES
    mode,             \* "p2p" (run_p2p) or "centralized" (run_centralized)
    ctxCanceled,      \* the caller's ctx has been cancelled
    rootPc,           \* position of the root task of the run's scope
    outerErr,         \* first error recorded by the run's scope
    pollerPc,         \* fetch_state_loop background task
    main_node_block,  \* SyncState: latest known upstream height, -1 = None
    monitorPc,        \* fork monitor background task
    runnerPc,         \* block store runner background task
    genesis,          \* genesis captured at startup
    first,            \* fetch_blocks: queue.next() at entry, -1 before
    next,             \* fetch_blocks: producer's next block number
    prodPc,           \* producer task of fetch_blocks
    chan,             \* bounded channel of in-flight handles
    consPc,           \* consumer loop (root task of the inner scope)
    consN,            \* block number of the handle being joined
    fetchSt,          \* state of the fetch_block(n) task of every n
    innerErr,         \* first error recorded by the scope of fetch_blocks
    queueNext,        \* PayloadQueue cursor
    committed,        \* sequence of block numbers appended to the queue
    persistedNext,    \* store: every block < persistedNext is persisted
    result,           \* what the run returned to its caller
    heightSeen,       \* history: highest value the Sync State has held
    fatal,            \* history: timing of the first fatal error
    retried,          \* history: running or returned fetches that retried
    mismatchSeen,     \* history: timing of the first different genesis seen
    backfillOk,       \* history: fetch_blocks returned Ok
    handoff,          \* history: into_block_store() has been called
    observe,          \* the two histories below are recorded (ObsSpec only)
    lastHead,         \* history: last answer to the poller, NoHead = error
    monitorSeen,      \* history: last answer to the fork monitor
    \* -- execution sandbox: VmConcurrencyLimiter / VmConcurrencyBarrier --
    max_concurrency,  \* VmConcurrencyBarrier::max_concurrency
    available_permits,\* Semaphore: permits not handed out
    is_closed,        \* Semaphore: close() has been called
    waiters,          \* Semaphore: queue of the acquire calls that wait
    acqPc,            \* per caller: position of its acquire() call
    permitRefs,       \* per caller: live VmPermit handles (Arc count)
    barrierPc,        \* position of wait_until_stopped()
    waitedAtClose,    \* history: callers that were waiting at close()
    \* -- execution sandbox: BlockStartInfo --
    db_pruned,        \* Postgres: last_soft_pruned_miniblock, -1 = None
    cached_pruned,    \* cached_pruning_info.info: the same, as cached
    cacheAge,         \* now - cached_at, relative to MAX_CACHE_AGE
    callBlock,        \* block id of the last ensure_not_pruned_block
    callResult,       \* what that call returned
    \* -- state keeper: MiniblockUpdates --
    executed_transactions,  \* Vec<TransactionExecutionResult>
    events,                 \* Vec<VmEvent>
    storage_logs,           \* Vec<StorageLogQuery>
    user_l2_to_l1_logs,     \* Vec<UserL2ToL1Log>
    system_l2_to_l1_logs,   \* Vec<SystemL2ToL1Log>
    new_factory_deps,       \* HashMap<H256, Vec<u8>>, as a set of pairs
    l1_gas_count,           \* BlockGasCount
    block_execution_metrics,\* ExecutionMetrics
    txs_encoding_size,      \* usize
    payload_encoding_size,  \* usize
    calls,                  \* history: the calls made, with their inputs
    panicked                \* history: the last call has panicked

fetcherVars ==
    <<mode, ctxCanceled, rootPc, outerErr, pollerPc, main_node_block,
      monitorPc, runnerPc, genesis, first, next, prodPc, chan, consPc,
      consN, fetchSt, innerErr, queueNext, committed, persistedNext,
      result, heightSeen, fatal, retried, mismatchSeen, backfillOk,
      handoff, observe, lastHead, monitorSeen>>

limiterVars == <<max_concurrency, available_permits, is_closed, waiters,
                 acqPc, permitRefs, barrierPc, waitedAtClose>>

pruneVars == <<db_pruned, cached_pruned, cacheAge, callBlock, callResult>>

miniblockVars ==
    <<executed_transactions, events, storage_logs, user_l2_to_l1_logs,
      system_l2_to_l1_logs, new_factory_deps, l1_gas_count,
      block_execution_metrics, txs_encoding_size, payload_encoding_size,
      calls, panicked>>

\* The state of the execution sandbox and of the state keeper, which the
\* Fetcher never touches.
sandboxVars == <<limiterVars, pruneVars, miniblockVars>>

vars == <<fetcherVars, limiterVars, pruneVars, miniblockVars>>

\* The histories of the background loops.
obsVars == <<observe, lastHead, monitorSeen>>

outerVars == <<mode, ctxCanceled, rootPc, outerErr, pollerPc, monitorPc,
               runnerPc, genesis, result, handoff, backfillOk>>
innerVars == <<first, next, prodPc, chan, consPc, consN, fetchSt, innerErr>>
histVars == <<fatal, retried, mismatchSeen>>

\* ---- scope::run! --------------------------------------------------------
\* Mutant: the last error returned by a task is the scope's error.
SetErrLast(cur, e) == e

\* scope: the first error returned by any task is the scope's error.
SetErr(cur, e) == IF cur = "none" THEN e ELSE cur

\* The run's scope is cancelled by its parent ctx, by a task's error, or by
\* the completion of its only main task (the root task).
OuterCanceled == ctxCanceled \/ outerErr # "none" \/ rootPc = "done"

\* The scope of fetch_blocks is a child of the run's scope.
InnerCanceled == OuterCanceled \/ innerErr # "none"

\* A ctx.wait of a network request, or a ctx.sleep, races with the
\* cancellation of its context only when it has begun before it: begun on a
\* cancelled context it returns Canceled.  A task that begins one is "stale"
\* when the context is cancelled, else in state st.
Begin(canceled, st) == IF canceled THEN "stale" ELSE st

FetchTerminal == {"none", "ok", "err", "canceled"}

\* Mutant: the scope returns as soon as its root task has returned.
InnerAllDoneRootOnly == consPc = "done"

\* Every task of the scope of fetch_blocks has terminated.
InnerAllDone ==
    /\ consPc = "done"
    /\ prodPc = "done"
    /\ \A n \in Blocks : fetchSt[n] \in FetchTerminal

\* History: the timing of the first event of a kind (a fatal, that is
\* ctx::Error::Internal, error raised by a task; a different genesis fetched
\* by the fork monitor): "live" when the root task of the run was still
\* running, "late" when it had returned.
FirstTiming(f) == IF f # "none" THEN f
                ELSE IF rootPc = "done" THEN "late" ELSE "live"

\* end of the running fetch_blocks: Some(genesis.fork.first_block) in
\* run_p2p, None in run_centralized.
EndIsSome == mode = "p2p"
End == genesis.first_block

\* Mutant: the bound is inclusive.
BelowOrAtEnd(n) == (~EndIsSome) \/ n <= End

\* Mutant: without an end nothing is below it.
BelowSomeOnly(n) == EndIsSome /\ n < End

\* end.map_or(true, |end| n < end), the loop test of producer and consumer.
Below(n) == (~EndIsSome) \/ n < End

\* ---- SyncState ----------------------------------------------------------
\* SyncState::set_main_node_block: the watched value only moves forward.
set_main_node_block(cur, head) == IF head > cur THEN head ELSE cur

\* ---- the channel --------------------------------------------------------
ChanFull(ch) == Len(ch) >= MAX_CONCURRENT_REQUESTS

InitRun ==
    /\ mode \in {"p2p", "centralized"}
    /\ ctxCanceled = FALSE
    /\ rootPc = IF mode = "p2p" THEN "fetch_genesis" ELSE "new_payload_queue"
    /\ outerErr = "none"
    /\ pollerPc = "loop"
    /\ main_node_block = -1
    /\ monitorPc = "none"
    /\ runnerPc = "none"
    /\ genesis = NoGenesis
    /\ first = -1
    /\ next = -1
    /\ prodPc = "none"
    /\ chan = <<>>
    /\ consPc = "none"
    /\ consN = -1
    /\ fetchSt = [n \in Blocks |-> "none"]
    /\ innerErr = "none"
    /\ queueNext \in 0..MaxStart
    /\ committed = <<>>
    /\ persistedNext = queueNext
    /\ result = "running"
    /\ heightSeen = main_node_block
    /\ fatal = "none"
    /\ retried = {}
    /\ mismatchSeen = "none"
    /\ backfillOk = FALSE
    /\ handoff = FALSE
    /\ lastHead = NoHead
    /\ monitorSeen = "none"

\* VmConcurrencyLimiter::new(n): a semaphore of n permits, not closed, no
\* caller yet, and the barrier not yet waited on.
LimiterNew(n) ==
    /\ max_concurrency = n
    /\ available_permits = n
    /\ is_closed = FALSE
    /\ waiters = <<>>
    /\ acqPc = [c \in Callers |-> "idle"]
    /\ permitRefs = [c \in Callers |-> 0]
    /\ barrierPc = "idle"
    /\ waitedAtClose = {}

\* BlockStartInfo::new: the pruning info is read and cached.
BlockStartInfoNew(p) ==
    /\ db_pruned = p
    /\ cached_pruned = p
    /\ cacheAge = "fresh"
    /\ callBlock = NoBlockId
    /\ callResult = NoResult

\* MiniblockUpdates::new: every vector and map empty, every total 0.
MiniblockUpdatesNew ==
    /\ executed_transactions = <<>>
    /\ events = <<>>
    /\ storage_logs = <<>>
    /\ user_l2_to_l1_logs = <<>>
    /\ system_l2_to_l1_logs = <<>>
    /\ new_factory_deps = {}
    /\ l1_gas_count = 0
    /\ block_execution_metrics = 0
    /\ txs_encoding_size = 0
    /\ payload_encoding_size = 0
    /\ calls = <<>>
    /\ panicked = FALSE

\* The execution sandbox and the accumulator as the Fetcher's
\* specifications see them: created and never used.
SandboxNew ==
    /\ LimiterNew(MaxConcurrency)
    /\ BlockStartInfoNew(NoPruned)
    /\ MiniblockUpdatesNew

\* The run as Spec and LiveSpec check it: the answers to the background
\* loops are not recorded.
Init == InitRun /\ observe = FALSE /\ SandboxNew

\* The same run, with the answers to the background loops recorded.
ObsInit == InitRun /\ observe = TRUE /\ SandboxNew

\* The Fetcher as the sandbox's specifications see it: not started.
FetcherIdle == InitRun /\ observe = FALSE /\ mode = "centralized" /\ queueNext = 0

\* The caller cancels the shared context.
Cancel ==
    /\ result = "running"
    /\ ~ctxCanceled
    /\ ctxCanceled' = TRUE
    /\ UNCHANGED <<mode, rootPc, outerErr, pollerPc, main_node_block, heightSeen,
                   monitorPc, runnerPc, genesis, queueNext, committed,
                   persistedNext, result, backfillOk, handoff>>
    /\ UNCHANGED <<innerVars, histVars>>
    /\ UNCHANGED obsVars
    /\ UNCHANGED sandboxVars

\* ---- fetch_state_loop ---------------------------------------------------
\* Mutant: a failed height fetch resets the Sync State to None.
PollUpdateResetOnErr(cur, r) ==
    IF r = NoHead THEN -1 ELSE set_main_node_block(cur, r)

\* The match on the answer of fetch_l2_block_number: Ok(head) is handed to
\* set_main_node_block, Err only logs.
PollUpdate(cur, r) ==
    IF r = NoHead THEN cur ELSE set_main_node_block(cur, r)

\* Mutant: a failed height fetch ends the poller.
PollerNextFailOnErr(r) ==
    IF r = NoHead THEN "failed" ELSE Begin(OuterCanceled, "loop")

\* Both arms end in a ctx.sleep(..).await? (500 ms after Ok, 5 s after Err)
\* and the loop goes on.
PollerNext(r) == Begin(OuterCanceled, "loop")

\* One iteration: fetch_l2_block_number, set_main_node_block on success,
\* then the sleep.  r is the upstream's answer: a head, or NoHead (Err).
Poll(r) ==
    /\ pollerPc = "loop"
    /\ main_node_block' = PollUpdate(main_node_block, r)
    /\ heightSeen' = (IF main_node_block' > heightSeen THEN main_node_block'
                      ELSE heightSeen)
    /\ pollerPc' = PollerNext(r)
    /\ lastHead' = (IF observe THEN r ELSE lastHead)
    /\ UNCHANGED <<observe, monitorSeen>>
    /\ UNCHANGED <<mode, ctxCanceled, rootPc, outerErr, monitorPc, runnerPc,
                   genesis, result, handoff, backfillOk>>
    /\ UNCHANGED <<innerVars, histVars, queueNext, committed, persistedNext>>
    /\ UNCHANGED sandboxVars

\* ctx.wait / ctx.sleep of the poller return Canceled.
PollerCancel ==
    /\ pollerPc \in {"loop", "stale"}
    /\ OuterCanceled
    /\ pollerPc' = "done"
    /\ outerErr' = SetErr(outerErr, "Canceled")
    /\ UNCHANGED <<mode, ctxCanceled, rootPc, main_node_block, heightSeen, monitorPc,
                   runnerPc, genesis, queueNext, committed, persistedNext,
                   result, backfillOk, handoff>>
    /\ UNCHANGED <<innerVars, histVars>>
    /\ UNCHANGED obsVars
    /\ UNCHANGED sandboxVars

\* ---- root task of run_p2p / run_centralized -----------------------------
\* The root task returns Err(e) to the run's scope.
RootFail(e) ==
    /\ rootPc' = "done"
    /\ outerErr' = SetErr(outerErr, e)
    /\ fatal' = (IF e = "Internal" THEN FirstTiming(fatal) ELSE fatal)

\* Mutant: run_p2p goes on when the initial fetch_genesis has failed.
StartupGenesisFailsNever(r) == FALSE

\* run_p2p: "fetch_genesis(ctx).await.wrap(...)?" returns the error.
StartupGenesisFails(r) == r = NoGenesis

\* run_p2p: the initial fetch_genesis.  r is a genesis, or NoGenesis (Err).
FetchGenesisStartup(r) ==
    /\ rootPc = "fetch_genesis"
    /\ IF StartupGenesisFails(r)
       THEN /\ RootFail("Internal")
            /\ UNCHANGED genesis
       ELSE /\ genesis' = r
            /\ rootPc' = "new_payload_queue"
            /\ UNCHANGED <<outerErr, fatal>>
    /\ UNCHANGED <<mode, ctxCanceled, pollerPc, main_node_block, heightSeen, monitorPc,
                   runnerPc, queueNext, committed, persistedNext, result,
                   backfillOk, handoff, retried, mismatchSeen>>
    /\ UNCHANGED innerVars
    /\ UNCHANGED obsVars
    /\ UNCHANGED sandboxVars

\* access(), try_update_genesis(), new_payload_queue(), and the entry of
\* fetch_blocks: first = queue.next(), the scope with its producer task
\* and the consumer loop as root task.
NewPayloadQueue(ok) ==
    /\ rootPc = "new_payload_queue"
    /\ IF ok
       THEN /\ rootPc' = "fetch_blocks"
            /\ first' = queueNext
            /\ next' = queueNext
            /\ prodPc' = "loop"
            /\ consPc' = "recv"
            /\ UNCHANGED <<outerErr, fatal>>
       ELSE /\ RootFail("Internal")
            /\ UNCHANGED <<first, next, prodPc, consPc>>
    /\ UNCHANGED <<mode, ctxCanceled, pollerPc, main_node_block, heightSeen, monitorPc,
                   runnerPc, genesis, queueNext, committed, persistedNext,
                   result, backfillOk, handoff, retried, mismatchSeen,
                   chan, consN, fetchSt, innerErr>>
    /\ UNCHANGED obsVars
    /\ UNCHANGED sandboxVars

\* A ctx-aware await of the root task outside fetch_blocks' scope returns
\* Canceled: fetch_genesis, access, wait_for_payload, into_block_store,
\* executor.run.
RootCancel ==
    /\ rootPc \in {"fetch_genesis", "new_payload_queue", "wait_for_payload",
                   "into_block_store", "executor"}
    /\ OuterCanceled
    /\ RootFail("Canceled")
    /\ handoff' = (handoff \/ rootPc = "into_block_store")
    /\ UNCHANGED <<mode, ctxCanceled, pollerPc, main_node_block, heightSeen, monitorPc,
                   runnerPc, genesis, queueNext, committed, persistedNext,
                   result, backfillOk, retried, mismatchSeen>>
    /\ UNCHANGED innerVars
    /\ UNCHANGED obsVars
    /\ UNCHANGED sandboxVars

\* fetch_blocks has returned Ok: run_centralized returns it, run_p2p
\* spawns the fork monitor and goes on to into_block_store.
AfterFetchBlocks ==
    /\ backfillOk' = TRUE
    /\ IF mode = "p2p"
       THEN /\ monitorPc' = Begin(OuterCanceled, "loop")
            /\ rootPc' = "into_block_store"
       ELSE /\ rootPc' = "done"
            /\ UNCHANGED monitorPc

\* Mutant: the test is inverted, so the wait for persistence is skipped.
FetchedAnythingInverted(f, q) == q < f

\* Mutant: the persistence of the last block is awaited also when nothing
\* has been fetched.
FetchedAnythingOrNothing(f, q) == f <= q

\* fetch_blocks: "if first < queue.next()", something has been fetched.
FetchedAnything(f, q) == f < q

\* scope::run! of fetch_blocks returns once all its tasks have terminated.
ScopeReturn ==
    /\ rootPc = "fetch_blocks"
    /\ InnerAllDone
    /\ IF innerErr # "none"
       THEN /\ rootPc' = "done"
            /\ outerErr' = SetErr(outerErr, innerErr)
            /\ UNCHANGED <<monitorPc, backfillOk>>
       ELSE IF FetchedAnything(first, queueNext)
       THEN /\ rootPc' = "wait_for_payload"
            /\ UNCHANGED <<outerErr, monitorPc, backfillOk>>
       ELSE /\ AfterFetchBlocks
            /\ UNCHANGED outerErr
    /\ UNCHANGED <<mode, ctxCanceled, pollerPc, main_node_block, heightSeen, runnerPc,
                   genesis, queueNext, committed, persistedNext, result,
                   handoff>>
    /\ UNCHANGED <<innerVars, histVars>>
    /\ UNCHANGED obsVars
    /\ UNCHANGED sandboxVars

\* Store::wait_for_payload(n): returns once block n is persisted.
WaitForPayloadDone(n) == persistedNext > n

\* wait_for_payload(queue.next().prev()) of fetch_blocks.
WaitForPayload(ok) ==
    /\ rootPc = "wait_for_payload"
    /\ IF ok
       THEN /\ WaitForPayloadDone(queueNext - 1)
            /\ AfterFetchBlocks
            /\ UNCHANGED <<outerErr, fatal>>
       ELSE /\ RootFail("Internal")
            /\ UNCHANGED <<monitorPc, backfillOk>>
    /\ UNCHANGED <<mode, ctxCanceled, pollerPc, main_node_block, heightSeen, runnerPc,
                   genesis, queueNext, committed, persistedNext, result,
                   handoff, retried, mismatchSeen>>
    /\ UNCHANGED innerVars
    /\ UNCHANGED obsVars
    /\ UNCHANGED sandboxVars

\* run_p2p: into_block_store(ctx, Some(payload_queue)), then the runner is
\* spawned in the background.
IntoBlockStore(ok) ==
    /\ rootPc = "into_block_store"
    /\ handoff' = TRUE
    /\ IF ok
       THEN /\ rootPc' = "executor"
            /\ runnerPc' = "run"
            /\ UNCHANGED <<outerErr, fatal>>
       ELSE /\ RootFail("Internal")
            /\ UNCHANGED runnerPc
    /\ UNCHANGED <<mode, ctxCanceled, pollerPc, main_node_block, heightSeen, monitorPc,
                   genesis, queueNext, committed, persistedNext, result,
                   backfillOk, retried, mismatchSeen>>
    /\ UNCHANGED innerVars
    /\ UNCHANGED obsVars
    /\ UNCHANGED sandboxVars

\* run_p2p: executor.run(ctx) returns Ok or fails.
ExecutorRun(ok) ==
    /\ rootPc = "executor"
    /\ IF ok
       THEN /\ rootPc' = "done"
            /\ UNCHANGED <<outerErr, fatal>>
       ELSE RootFail("Internal")
    /\ UNCHANGED <<mode, ctxCanceled, pollerPc, main_node_block, heightSeen, monitorPc,
                   runnerPc, genesis, queueNext, committed, persistedNext,
                   result, backfillOk, handoff, retried, mismatchSeen>>
    /\ UNCHANGED innerVars
    /\ UNCHANGED obsVars
    /\ UNCHANGED sandboxVars

\* run_p2p: the block store runner (background) fails, or stops on
\* cancellation.
RunnerExit(ok) ==
    /\ runnerPc = "run"
    /\ IF ok
       THEN /\ OuterCanceled
            /\ runnerPc' = "done"
            /\ outerErr' = SetErr(outerErr, "Canceled")
            /\ UNCHANGED fatal
       ELSE /\ runnerPc' = "failed"
            /\ outerErr' = SetErr(outerErr, "Internal")
            /\ fatal' = FirstTiming(fatal)
    /\ UNCHANGED <<mode, ctxCanceled, rootPc, pollerPc, main_node_block, heightSeen,
                   monitorPc, genesis, queueNext, committed, persistedNext,
                   result, backfillOk, handoff, retried, mismatchSeen>>
    /\ UNCHANGED innerVars
    /\ UNCHANGED obsVars
    /\ UNCHANGED sandboxVars

\* ---- fork monitor -------------------------------------------------------
\* Mutant: only the fork identity is compared.
GenesisChangedForkOnly(new, old) == new.fork # old.fork

\* Mutant: the monitor fails on every genesis it fetches.
GenesisChangedAlways(new, old) == TRUE

\* The monitor's test "new != old".
GenesisChanged(new, old) == new # old

\* One iteration: fetch_genesis (r: a genesis, or NoGenesis), the comparison
\* with the genesis captured at startup, then the sleep.
MonitorLoop(r) ==
    /\ monitorPc = "loop"
    /\ IF r # NoGenesis /\ GenesisChanged(r, genesis)
       THEN /\ monitorPc' = "failed"
            /\ outerErr' = SetErr(outerErr, "Internal")
            /\ fatal' = FirstTiming(fatal)
       ELSE /\ monitorPc' = Begin(OuterCanceled, "loop")
            /\ UNCHANGED <<outerErr, fatal>>
    /\ mismatchSeen' = (IF r # NoGenesis /\ r # genesis
                        THEN FirstTiming(mismatchSeen) ELSE mismatchSeen)
    /\ monitorSeen' = (IF ~observe THEN monitorSeen
                       ELSE IF r = NoGenesis THEN "err"
                       ELSE IF r = genesis THEN "same" ELSE "diff")
    /\ UNCHANGED <<observe, lastHead>>
    /\ UNCHANGED <<mode, ctxCanceled, rootPc, pollerPc, main_node_block, heightSeen,
                   runnerPc, genesis, queueNext, committed, persistedNext,
                   result, backfillOk, handoff, retried>>
    /\ UNCHANGED innerVars
    /\ UNCHANGED sandboxVars

\* ctx.sleep of the monitor returns Canceled.
MonitorCancel ==
    /\ monitorPc \in {"loop", "stale"}
    /\ OuterCanceled
    /\ monitorPc' = "done"
    /\ outerErr' = SetErr(outerErr, "Canceled")
    /\ UNCHANGED <<mode, ctxCanceled, rootPc, pollerPc, main_node_block, heightSeen,
                   runnerPc, genesis, queueNext, committed, persistedNext,
                   result, backfillOk, handoff>>
    /\ UNCHANGED <<innerVars, histVars>>
    /\ UNCHANGED obsVars
    /\ UNCHANGED sandboxVars

\* ---- fetch_blocks: producer task ---------------------------------------
\* SyncState::wait_for_main_node_block(ctx, n) may return Ok.
WaitForMainNodeBlockDone(n) == main_node_block >= n

\* Mutant: the producer does not wait for the Sync State.
MayIssueUnchecked(n) == n \in Blocks

\* The producer may go on to spawn fetch_block(n): its await of
\* wait_for_main_node_block(ctx, n) has returned Ok.
MayIssue(n) == WaitForMainNodeBlockDone(n)

\* Loop test is true, wait_for_main_node_block(n) has returned, and
\* s.spawn(self.fetch_block(ctx, n)) has been evaluated as the argument of
\* send.send: the task runs, the handle is not yet in the channel.
ProducerSpawn ==
    /\ prodPc = "loop"
    /\ Below(next)
    /\ next \in Blocks
    /\ MayIssue(next)
    /\ fetchSt' = [fetchSt EXCEPT ![next] = Begin(InnerCanceled, "call")]
    /\ prodPc' = "send"
    /\ UNCHANGED <<outerVars, histVars, main_node_block, heightSeen, queueNext,
                   committed, persistedNext, first, next, chan, consPc,
                   consN, innerErr>>
    /\ UNCHANGED obsVars
    /\ UNCHANGED sandboxVars

\* Mutant: the producer skips a block number.
NextBlockSkip(n) == n + 2

\* next = next.next().
NextBlock(n) == n + 1

\* send.send completes when the channel has room; then next = next.next().
ProducerSend ==
    /\ prodPc = "send"
    /\ ~ChanFull(chan)
    /\ chan' = Append(chan, next)
    /\ next' = NextBlock(next)
    /\ prodPc' = "loop"
    /\ UNCHANGED <<outerVars, histVars, main_node_block, heightSeen, queueNext,
                   committed, persistedNext, first, consPc, consN, fetchSt,
                   innerErr>>
    /\ UNCHANGED obsVars
    /\ UNCHANGED sandboxVars

\* The loop test is false: the producer returns Ok.
ProducerExit ==
    /\ prodPc = "loop"
    /\ ~Below(next)
    /\ prodPc' = "done"
    /\ UNCHANGED <<outerVars, histVars, main_node_block, heightSeen, queueNext,
                   committed, persistedNext, first, next, chan, consPc,
                   consN, fetchSt, innerErr>>
    /\ UNCHANGED obsVars
    /\ UNCHANGED sandboxVars

\* wait_for_main_node_block or send.send returns Canceled.
ProducerCancel ==
    /\ \/ prodPc = "loop" /\ Below(next)
       \/ prodPc = "send"
    /\ InnerCanceled
    /\ prodPc' = "done"
    /\ innerErr' = SetErr(innerErr, "Canceled")
    /\ UNCHANGED <<outerVars, histVars, main_node_block, heightSeen, queueNext,
                   committed, persistedNext, first, next, chan, consPc,
                   consN, fetchSt>>
    /\ UNCHANGED obsVars
    /\ UNCHANGED sandboxVars

\* ---- fetch_block(n) -----------------------------------------------------
\* Answers of client.fetch_l2_block(n, true): Ok(Some(block)) with a block
\* that converts ("some") or not ("bad"), Ok(None), a transient error, a
\* permanent error.
Replies == {"some", "bad", "none", "transient", "permanent"}

\* Mutant: Ok(None) is surfaced to the caller as an error.
FetchOutcomeNoneIsErr(r) ==
    CASE r = "some" -> "ok"
      [] r = "bad" -> "err"
      [] r = "none" -> "err"
      [] r = "transient" -> "retry"
      [] r = "permanent" -> "err"

\* What fetch_block does with an answer: "ok" returns the block, "err"
\* returns an Internal error, "retry" sleeps RETRY_INTERVAL and loops.
FetchOutcome(r) ==
    CASE r = "some" -> "ok"
      [] r = "bad" -> "err"
      [] r = "none" -> "retry"
      [] r = "transient" -> "retry"
      [] r = "permanent" -> "err"

\* One iteration of the loop of fetch_block(n): the upstream answers the
\* request, and on a retryable answer the task sleeps and issues the
\* request again.
FetchReply(n, r) ==
    /\ fetchSt[n] = "call"
    /\ fetchSt' = [fetchSt EXCEPT ![n] =
                     IF FetchOutcome(r) = "retry"
                     THEN Begin(InnerCanceled, "call")
                     ELSE FetchOutcome(r)]
    /\ IF FetchOutcome(r) = "err"
       THEN /\ innerErr' = SetErr(innerErr, "Internal")
            /\ fatal' = FirstTiming(fatal)
       ELSE UNCHANGED <<innerErr, fatal>>
    /\ retried' = (CASE FetchOutcome(r) = "retry" -> retried \cup {n}
                     [] FetchOutcome(r) = "err" -> retried \ {n}
                     [] OTHER -> retried)
    /\ UNCHANGED <<outerVars, main_node_block, heightSeen, queueNext,
                   committed, persistedNext, first, next, prodPc, chan,
                   consPc, consN, mismatchSeen>>
    /\ UNCHANGED obsVars
    /\ UNCHANGED sandboxVars

\* ctx.wait or ctx.sleep of fetch_block(n) returns Canceled.
FetchCancel(n) ==
    /\ fetchSt[n] \in {"call", "stale"}
    /\ InnerCanceled
    /\ fetchSt' = [fetchSt EXCEPT ![n] = "canceled"]
    /\ innerErr' = SetErr(innerErr, "Canceled")
    /\ retried' = retried \ {n}
    /\ UNCHANGED <<outerVars, main_node_block, heightSeen, queueNext, committed,
                   persistedNext, first, next, prodPc, chan, consPc, consN,
                   fatal, mismatchSeen>>
    /\ UNCHANGED obsVars
    /\ UNCHANGED sandboxVars

\* ---- fetch_blocks: consumer loop ----------------------------------------
\* Mutant: the consumer takes the newest handle instead of the oldest.
RecvHandleNewest(ch) == ch[Len(ch)]

\* recv.recv(ctx): the oldest handle of the channel ...
RecvHandle(ch) == Head(ch)

\* ... and the handles left in the channel.
\* Mutant: the received handle stays in the channel.
RecvRestKept(ch) == ch

RecvRest(ch) == Tail(ch)

\* The loop test is true and recv.recv(ctx) returns a handle.
ConsumerRecv ==
    /\ consPc = "recv"
    /\ Below(queueNext)
    /\ chan # <<>>
    /\ consN' = RecvHandle(chan)
    /\ chan' = RecvRest(chan)
    /\ consPc' = "join"
    /\ UNCHANGED <<outerVars, histVars, main_node_block, heightSeen, queueNext,
                   committed, persistedNext, first, next, prodPc, fetchSt,
                   innerErr>>
    /\ UNCHANGED obsVars
    /\ UNCHANGED sandboxVars

\* PayloadQueue::send(block): appends the block, the cursor advances by 1.
QueueSend(q, n) == Append(q, n)

\* Mutant: join(ctx) yields a block for a task that has failed, too.
JoinYieldsBlockOnErr(st) == st \in {"ok", "err"}

\* join(ctx) yields a block only when the joined task has returned Ok.
JoinYieldsBlock(st) == st = "ok"

\* join(ctx) returns the block of the joined task and queue.send(block)
\* appends it (ok) or fails.
ConsumerJoinSend(ok) ==
    /\ consPc = "join"
    /\ JoinYieldsBlock(fetchSt[consN])
    /\ IF ok
       THEN /\ committed' = QueueSend(committed, consN)
            /\ queueNext' = queueNext + 1
            /\ consPc' = "recv"
            /\ UNCHANGED <<innerErr, fatal>>
       ELSE /\ consPc' = "done"
            /\ innerErr' = SetErr(innerErr, "Internal")
            /\ fatal' = FirstTiming(fatal)
            /\ UNCHANGED <<committed, queueNext>>
    /\ UNCHANGED <<outerVars, main_node_block, heightSeen, persistedNext, first, next,
                   prodPc, chan, consN, fetchSt, retried, mismatchSeen>>
    /\ UNCHANGED obsVars
    /\ UNCHANGED sandboxVars

\* The loop test is false: the consumer loop returns Ok.
ConsumerExit ==
    /\ consPc = "recv"
    /\ ~Below(queueNext)
    /\ consPc' = "done"
    /\ UNCHANGED <<outerVars, histVars, main_node_block, heightSeen, queueNext,
                   committed, persistedNext, first, next, prodPc, chan,
                   consN, fetchSt, innerErr>>
    /\ UNCHANGED obsVars
    /\ UNCHANGED sandboxVars

\* recv.recv(ctx) or join(ctx) returns Canceled: the context is cancelled,
\* or the joined task has terminated without a block.
ConsumerCancel ==
    /\ \/ consPc = "recv" /\ Below(queueNext) /\ InnerCanceled
       \/ consPc = "join" /\ InnerCanceled
       \/ consPc = "join" /\ fetchSt[consN] \in {"err", "canceled"}
    /\ consPc' = "done"
    /\ innerErr' = SetErr(innerErr, "Canceled")
    /\ UNCHANGED <<outerVars, histVars, main_node_block, heightSeen, queueNext,
                   committed, persistedNext, first, next, prodPc, chan,
                   consN, fetchSt>>
    /\ UNCHANGED obsVars
    /\ UNCHANGED sandboxVars

\* ---- the run returns ----------------------------------------------------
\* Mutant: a cancellation is returned as an error.
RunResultCanceledIsErr(err) == IF err = "none" THEN "Ok" ELSE "Err"

\* match res of run_p2p / run_centralized.
RunResult(err) == IF err = "Internal" THEN "Err" ELSE "Ok"

\* scope::run! of the run returns once the root task and every background
\* task have terminated.
RunReturn ==
    /\ result = "running"
    /\ rootPc = "done"
    /\ pollerPc = "done"
    /\ monitorPc \in {"none", "done", "failed"}
    /\ runnerPc \in {"none", "done", "failed"}
    /\ result' = RunResult(outerErr)
    /\ UNCHANGED <<mode, ctxCanceled, rootPc, outerErr, pollerPc,
                   main_node_block, heightSeen, monitorPc, runnerPc, genesis, queueNext,
                   committed, persistedNext, backfillOk, handoff>>
    /\ UNCHANGED <<innerVars, histVars>>
    /\ UNCHANGED obsVars
    /\ UNCHANGED sandboxVars

\* ---- the store ----------------------------------------------------------
\* The store persists the committed blocks, in order.
Persist ==
    /\ persistedNext < queueNext
    /\ persistedNext' = persistedNext + 1
    /\ UNCHANGED <<outerVars, innerVars, histVars, main_node_block, heightSeen,
                   queueNext, committed>>
    /\ UNCHANGED obsVars
    /\ UNCHANGED sandboxVars

Next ==
    \/ Cancel
    \/ \E r \in Blocks \cup {NoHead} : Poll(r)
    \/ PollerCancel
    \/ \E r \in StartGenesisSet \cup {NoGenesis} : FetchGenesisStartup(r)
    \/ \E ok \in BOOLEAN : NewPayloadQueue(ok)
    \/ RootCancel
    \/ ScopeReturn
    \/ \E ok \in BOOLEAN : WaitForPayload(ok)
    \/ \E ok \in BOOLEAN : IntoBlockStore(ok)
    \/ \E ok \in BOOLEAN : ExecutorRun(ok)
    \/ \E ok \in BOOLEAN : RunnerExit(ok)
    \/ \E r \in GenesisSet \cup {NoGenesis} : MonitorLoop(r)
    \/ MonitorCancel
    \/ ProducerSpawn
    \/ ProducerSend
    \/ ProducerExit
    \/ ProducerCancel
    \/ \E n \in Blocks, r \in Replies : FetchReply(n, r)
    \/ \E n \in Blocks : FetchCancel(n)
    \/ ConsumerRecv
    \/ \E ok \in BOOLEAN : ConsumerJoinSend(ok)
    \/ ConsumerExit
    \/ ConsumerCancel
    \/ RunReturn
    \/ Persist

\* ---- properties ---------------------------------------------------------
\* Per-block fetches issued (task spawned) and not yet completed.
InFlight ==
    Cardinality({n \in Blocks : fetchSt[n] \in {"call", "stale"}})

\* C1: whatever the order in which the per-block fetches complete, the
\* blocks appended to the queue by fetch_blocks are first, first+1, ... with
\* no gap, repeat or reordering, and every append advances the cursor by 1.
C1_CommitsInOrder ==
    /\ \A i \in 1..Len(committed) : committed[i] = first + i - 1
    /\ first >= 0 => queueNext = first + Len(committed)
    /\ first < 0 => committed = <<>>

\* C1 witness: block first has been appended while the fetch of a later
\* block has completed before the fetch of an earlier one.
C1_Witness ==
    /\ Len(committed) >= 1
    /\ \E n \in Blocks : /\ n + 1 \in Blocks
                         /\ fetchSt[n] = "call"
                         /\ fetchSt[n + 1] = "ok"

\* C2: at most MAX_CONCURRENT_REQUESTS per-block fetches are issued and not
\* yet completed.
C2_AtMostWInFlight == InFlight <= MAX_CONCURRENT_REQUESTS

\* C3: the fetch of block n is issued only after the Sync State has
\* reported an upstream height >= n.
C3_FetchAfterHeight ==
    \A n \in Blocks : fetchSt[n] # "none" => heightSeen >= n

\* C3 witness: a fetch has been issued and the producer is held back by the
\* Sync State for the next block.
C3_Witness ==
    /\ prodPc = "loop"
    /\ Below(next)
    /\ next \in Blocks
    /\ heightSeen < next
    /\ next > first
    /\ fetchSt[next - 1] # "none"

\* C6: when fetch_blocks has returned Ok after committing a block, the last
\* committed block is persisted; into_block_store is called only after the
\* backfill has returned Ok, with every backfilled block persisted.
C6_DurableBeforeHandoff ==
    /\ (backfillOk /\ first < queueNext) => persistedNext >= queueNext
    /\ handoff => (backfillOk /\ persistedNext >= queueNext)

\* C6 witness: the handoff has begun after a backfill of several blocks.
C6_Witness == handoff /\ Len(committed) >= 2

\* Every task of the run has terminated.
AllTasksDone ==
    /\ rootPc = "done"
    /\ pollerPc = "done"
    /\ monitorPc \in {"none", "done", "failed"}
    /\ runnerPc \in {"none", "done", "failed"}
    /\ prodPc \in {"none", "done"}
    /\ consPc \in {"none", "done"}
    /\ \A n \in Blocks : fetchSt[n] \in FetchTerminal

\* Number of times block n has been appended to the queue.
Commits(n) == Cardinality({i \in 1..Len(committed) : committed[i] = n})

\* The run is over or doomed for a reason outside the pipeline's control:
\* the caller has cancelled, or some task has failed fatally.
Stopped == ctxCanceled \/ fatal # "none"

\* C4: with end = Some(e) and first <= e, unless the context is cancelled or
\* a task fails fatally, fetch_blocks eventually returns Ok; when it has
\* returned Ok it has committed exactly first..e-1 and the cursor is e.
C4_BoundedTerminates ==
    /\ [](backfillOk /\ EndIsSome /\ first <= End
            => /\ queueNext = End
               /\ committed = [i \in 1..(End - first) |-> first + i - 1])
    /\ (rootPc = "fetch_blocks" /\ EndIsSome /\ first <= End)
          ~> (backfillOk \/ Stopped)

\* C4 witness: a bounded fetch_blocks has returned Ok after committing every
\* block of a range of several blocks.
C4_Witness ==
    /\ backfillOk
    /\ EndIsSome
    /\ End - first >= 2
    /\ Len(committed) = End - first

\* C5: with end = None fetch_blocks never returns Ok, it returns only after
\* a cancellation or a fatal error; unless one of them happens, every block
\* the upstream height reaches is eventually committed.
C5_UnboundedRuns ==
    /\ [](~EndIsSome => ~backfillOk)
    /\ [](~EndIsSome /\ rootPc = "done" => Stopped)
    /\ (~EndIsSome) => <>(Stopped \/ queueNext = MaxBlock + 1)

\* C5 witness: the unbounded run has committed every block the upstream
\* has, and is still running, its consumer waiting for the next handle.
C5_Witness ==
    /\ ~EndIsSome
    /\ queueNext = MaxBlock + 1
    /\ Len(committed) >= 2
    /\ rootPc = "fetch_blocks"
    /\ consPc = "recv"
    /\ ~Stopped

\* C7: a block whose fetch was retried and then succeeded is committed
\* exactly once, once the consumer has gone past it: no block number is
\* ever committed twice, and unless the run is cancelled or fails, every
\* retried fetch that has succeeded is eventually committed (again and
\* again, all the retried fetches that have succeeded are committed).
C7_RetriedCommittedOnce ==
    /\ [](\A n \in Blocks : Commits(n) <= 1)
    /\ [](\A n \in retried :
            (fetchSt[n] = "ok" /\ first <= n /\ n < queueNext)
               => Commits(n) = 1)
    /\ []<>(Stopped \/ \A n \in retried : fetchSt[n] = "ok" => Commits(n) = 1)

\* C7 witness: a block fetched after a retry has been committed.
C7_Witness ==
    \E n \in retried : fetchSt[n] = "ok" /\ Commits(n) = 1

C10_NeverOkAfterFatal ==
    (result # "running" /\ fatal # "none") => result = "Err"

\* C10 amended: when a task fails fatally while the root task of the run is
\* still running and the caller does not cancel the context, the run returns
\* an error, after all its tasks have terminated.
C10_FatalPropagates ==
    /\ (result # "running" /\ fatal = "live" /\ ~ctxCanceled)
          => result = "Err"
    /\ result # "running" => AllTasksDone

\* C10 witness: the run has returned an error after a fatal error of one
\* task and the cancellation of a sibling fetch.
C10_Witness ==
    /\ result = "Err"
    /\ fatal = "live"
    /\ ~ctxCanceled
    /\ \E n \in Blocks : fetchSt[n] = "canceled"

\* C11: fetch_block(n) returns only with the block (the upstream answered
\* Ok(Some)), with an error (a permanent error of the upstream, or a block
\* that does not convert), or with cancellation; an answer of Ok(None) or a
\* transient error leaves the task running, records no error, and may be
\* repeated any number of times.
C11_FetchBlockContract ==
    [][\A n \in Blocks :
         /\ \A r \in {"none", "transient"} :
               FetchReply(n, r) => /\ fetchSt'[n] \in {"call", "stale"}
                                   /\ innerErr' = innerErr
                                   /\ fatal' = fatal
         /\ (fetchSt[n] # "ok" /\ fetchSt'[n] = "ok")
               => FetchReply(n, "some")
         /\ (fetchSt[n] # "err" /\ fetchSt'[n] = "err")
               => (FetchReply(n, "bad") \/ FetchReply(n, "permanent"))
         /\ (fetchSt[n] # "canceled" /\ fetchSt'[n] = "canceled")
               => (FetchCancel(n) /\ InnerCanceled)]_vars

\* C11 witness: two fetches that were answered "not yet available" or with
\* a transient error are still running, no error is recorded, and a third
\* fetch has returned its block.
C11_Witness ==
    /\ Cardinality({n \in retried : fetchSt[n] = "call"}) >= 2
    /\ \E n \in Blocks : fetchSt[n] = "ok"
    /\ innerErr = "none"
    /\ fatal = "none"

\* C12: when the run returns, whatever it returns, the poller, the fork
\* monitor, the runner, the producer, the consumer and every fetch task
\* have terminated; and once it has returned, the Sync State is not
\* updated, no fetch is issued or answered, and nothing is appended to the
\* queue.
C12_NoOrphanTasks ==
    /\ [](result # "running" => AllTasksDone)
    /\ [][result # "running" =>
            /\ main_node_block' = main_node_block
            /\ fetchSt' = fetchSt
            /\ next' = next
            /\ committed' = committed
            /\ queueNext' = queueNext]_vars

\* C12 witness: the run has returned after a failure inside fetch_blocks,
\* with blocks committed, the producer stopped and a sibling fetch
\* cancelled.
C12_Witness ==
    /\ result # "running"
    /\ innerErr = "Internal"
    /\ prodPc = "done"
    /\ pollerPc = "done"
    /\ Len(committed) >= 1
    /\ \E n \in Blocks : fetchSt[n] = "canceled"

\* C13: in gossip mode, while the backfill fetch_blocks is running (and
\* nothing has cancelled it), both the sync-state poller and the fork
\* monitor are running.
C13_BothRunDuringBackfill ==
    (mode = "p2p" /\ rootPc = "fetch_blocks" /\ ~InnerCanceled)
       => (pollerPc = "loop" /\ monitorPc = "loop")

C15_PollerNeverFatal ==
    /\ [](pollerPc \in {"loop", "stale", "done"})
    /\ [][Poll(NoHead) =>
            /\ main_node_block' = main_node_block
            /\ outerErr' = outerErr
            /\ fatal' = fatal
            /\ pollerPc' = (IF OuterCanceled THEN "stale" ELSE "loop")]_vars
    /\ [][(pollerPc # "done" /\ pollerPc' = "done") =>
            /\ OuterCanceled
            /\ fatal' = fatal
            /\ outerErr' \in {outerErr, "Canceled"}]_vars

\* C15 witness: after a successful poll the last height fetch has failed;
\* the Sync State still holds its value, the poller is about to poll again
\* and the run goes on without any error.
C15_Witness ==
    /\ lastHead = NoHead
    /\ main_node_block >= 1
    /\ pollerPc = "loop"
    /\ outerErr = "none"
    /\ rootPc = "fetch_blocks"
    /\ result = "running"

\* C16: a failed genesis fetch of the fork monitor records no error and is
\* followed by another fetch (unless the context has been cancelled
\* meanwhile); the monitor fails only after fetching a genesis that differs
\* from the one captured at startup, never after fetching an equal one.
C16_MonitorFailsOnlyOnMismatch ==
    /\ [](monitorPc = "failed" => monitorSeen = "diff")
    /\ [](monitorSeen \in {"err", "same"} => monitorPc # "failed")
    /\ [][MonitorLoop(NoGenesis) =>
            /\ outerErr' = outerErr
            /\ fatal' = fatal
            /\ monitorPc' = (IF OuterCanceled THEN "stale" ELSE "loop")]_vars

\* C16 witness: the monitor's last genesis fetch has failed; the monitor is
\* about to fetch again and the run goes on, in the executor, without any
\* error.
C16_Witness ==
    /\ monitorSeen = "err"
    /\ monitorPc = "loop"
    /\ rootPc = "executor"
    /\ outerErr = "none"
    /\ result = "running"

\* ==== execution sandbox: VmConcurrencyLimiter ============================
\* The tokio Semaphore behind the limiter is fair: a released permit goes to
\* the acquire call at the head of the queue ("assigned": the call returns
\* it when it is polled next), and to available_permits only when no call
\* waits.  close() empties the queue; every call that waited, even one that
\* has been assigned a permit and not yet polled, returns Err(closed) and an
\* assigned permit goes back to the semaphore.

\* A permit goes back to the semaphore while caller c moves to pc.
Release(c, pc) ==
    IF waiters # <<>>
    THEN /\ acqPc' = [acqPc EXCEPT ![c] = pc, ![Head(waiters)] = "assigned"]
         /\ waiters' = Tail(waiters)
         /\ UNCHANGED available_permits
    ELSE /\ acqPc' = [acqPc EXCEPT ![c] = pc]
         /\ available_permits' = available_permits + 1
         /\ UNCHANGED waiters

\* Mutant: acquire returns a permit whatever acquire_owned returned.
AcquireResultAlwaysSome(r) == "some"

\* acquire: "acquire_owned().await.ok()?" turns Err(closed) into None.
AcquireResult(r) == IF r = "Ok" THEN "some" ELSE "none"

\* acquire() up to its first poll of acquire_owned: Err when the semaphore
\* is closed, a permit when one is available, else the call joins the queue.
AcquireStart(c) ==
    /\ acqPc[c] \in {"idle", "none"}
    /\ IF is_closed
       THEN /\ acqPc' = [acqPc EXCEPT ![c] = AcquireResult("Err")]
            /\ permitRefs' = [permitRefs EXCEPT ![c] =
                                IF AcquireResult("Err") = "some" THEN 1 ELSE 0]
            /\ UNCHANGED <<available_permits, waiters>>
       ELSE IF available_permits > 0
       THEN /\ available_permits' = available_permits - 1
            /\ acqPc' = [acqPc EXCEPT ![c] = AcquireResult("Ok")]
            /\ permitRefs' = [permitRefs EXCEPT ![c] = 1]
            /\ UNCHANGED waiters
       ELSE /\ waiters' = Append(waiters, c)
            /\ acqPc' = [acqPc EXCEPT ![c] = "waiting"]
            /\ UNCHANGED <<available_permits, permitRefs>>
    /\ UNCHANGED <<max_concurrency, is_closed, barrierPc, waitedAtClose>>
    /\ UNCHANGED <<fetcherVars, pruneVars, miniblockVars>>

\* A waiting acquire() is polled again, after a permit was assigned to it
\* or after close(): it returns Some(VmPermit), or None when closed.
AcquireWake(c) ==
    /\ \/ acqPc[c] = "assigned"
       \/ acqPc[c] = "waiting" /\ is_closed
    /\ IF is_closed
       THEN /\ permitRefs' = [permitRefs EXCEPT ![c] =
                                IF AcquireResult("Err") = "some" THEN 1 ELSE 0]
            /\ IF acqPc[c] = "assigned"
               THEN Release(c, AcquireResult("Err"))
               ELSE /\ acqPc' = [acqPc EXCEPT ![c] = AcquireResult("Err")]
                    /\ UNCHANGED <<available_permits, waiters>>
       ELSE /\ acqPc' = [acqPc EXCEPT ![c] = AcquireResult("Ok")]
            /\ permitRefs' = [permitRefs EXCEPT ![c] = 1]
            /\ UNCHANGED <<available_permits, waiters>>
    /\ UNCHANGED <<max_concurrency, is_closed, barrierPc, waitedAtClose>>
    /\ UNCHANGED <<fetcherVars, pruneVars, miniblockVars>>

\* The caller drops the future of acquire() before it returned.
AcquireAbandon(c) ==
    /\ acqPc[c] \in {"waiting", "assigned"}
    /\ IF acqPc[c] = "assigned"
       THEN Release(c, "idle")
       ELSE /\ acqPc' = [acqPc EXCEPT ![c] = "idle"]
            /\ waiters' = SelectSeq(waiters, LAMBDA w : w # c)
            /\ UNCHANGED available_permits
    /\ UNCHANGED <<max_concurrency, is_closed, permitRefs, barrierPc,
                   waitedAtClose>>
    /\ UNCHANGED <<fetcherVars, pruneVars, miniblockVars>>

\* VmPermit::clone: one more handle of the same semaphore permit.
ClonePermit(c) ==
    /\ permitRefs[c] >= 1
    /\ permitRefs[c] < MaxRefs
    /\ permitRefs' = [permitRefs EXCEPT ![c] = @ + 1]
    /\ UNCHANGED <<max_concurrency, available_permits, is_closed, waiters,
                   acqPc, barrierPc, waitedAtClose>>
    /\ UNCHANGED <<fetcherVars, pruneVars, miniblockVars>>

\* Mutant: the permit is not shared, every handle dropped releases a slot.
ReleasesSlotEveryDrop(refs) == TRUE

\* VmPermit holds an Arc<OwnedSemaphorePermit>: the semaphore permit is
\* dropped with the last handle.
ReleasesSlot(refs) == refs = 0

\* A VmPermit handle (the original or a clone) is dropped.
DropPermit(c) ==
    /\ permitRefs[c] >= 1
    /\ permitRefs' = [permitRefs EXCEPT ![c] = @ - 1]
    /\ IF ReleasesSlot(permitRefs'[c])
       THEN Release(c, IF permitRefs'[c] = 0 THEN "idle" ELSE acqPc[c])
       ELSE UNCHANGED <<acqPc, available_permits, waiters>>
    /\ UNCHANGED <<max_concurrency, is_closed, barrierPc, waitedAtClose>>
    /\ UNCHANGED <<fetcherVars, pruneVars, miniblockVars>>

\* VmConcurrencyBarrier::close.
Close ==
    /\ ~is_closed
    /\ is_closed' = TRUE
    /\ waiters' = <<>>
    /\ waitedAtClose' = {c \in Callers : acqPc[c] \in {"waiting", "assigned"}}
    /\ UNCHANGED <<max_concurrency, available_permits, acqPc, permitRefs,
                   barrierPc>>
    /\ UNCHANGED <<fetcherVars, pruneVars, miniblockVars>>

\* wait_until_stopped is called: its assertion panics on a limiter that is
\* not closed.
WaitUntilStopped ==
    /\ barrierPc = "idle"
    /\ barrierPc' = (IF is_closed THEN "polling" ELSE "panicked")
    /\ UNCHANGED <<max_concurrency, available_permits, is_closed, waiters,
                   acqPc, permitRefs, waitedAtClose>>
    /\ UNCHANGED <<fetcherVars, pruneVars, miniblockVars>>

\* Mutant: the loop returns at its first iteration.
AllPermitsBackAlways(cur, max) == TRUE

\* The loop's test "current_permits == self.max_concurrency".
AllPermitsBack(cur, max) == cur = max

\* One iteration of the loop of wait_until_stopped: return, or sleep
\* POLL_INTERVAL.
BarrierPoll ==
    /\ barrierPc = "polling"
    /\ barrierPc' = (IF AllPermitsBack(available_permits, max_concurrency)
                     THEN "returned" ELSE "polling")
    /\ UNCHANGED <<max_concurrency, available_permits, is_closed, waiters,
                   acqPc, permitRefs, waitedAtClose>>
    /\ UNCHANGED <<fetcherVars, pruneVars, miniblockVars>>

LimiterInit ==
    /\ FetcherIdle
    /\ \E n \in 1..MaxConcurrency : LimiterNew(n)
    /\ BlockStartInfoNew(NoPruned)
    /\ MiniblockUpdatesNew

LimiterNext ==
    \/ \E c \in Callers : AcquireStart(c)
    \/ \E c \in Callers : AcquireWake(c)
    \/ \E c \in Callers : AcquireAbandon(c)
    \/ \E c \in Callers : ClonePermit(c)
    \/ \E c \in Callers : DropPermit(c)
    \/ Close
    \/ WaitUntilStopped
    \/ BarrierPoll

\* Permits of the semaphore that are out: held through VmPermit handles, or
\* assigned to an acquire call that has not returned yet.
PermitsHeld == Cardinality({c \in Callers : permitRefs[c] > 0})
PermitsAssigned == Cardinality({c \in Callers : acqPc[c] = "assigned"})

\* C17: with max_concurrency = N, at most N permits are out at any time
\* (every permit of the semaphore is available, held through VmPermit
\* handles, or assigned to a returning acquire); a slot is released only by
\* a step that drops the last handle of a permit (or gives back an assigned
\* permit), never while a clone is alive; and an acquire obtains a permit
\* only from a free slot or from a release, and waits when it finds none.
C17_AtMostNPermits ==
    /\ [](PermitsHeld <= max_concurrency)
    /\ [](PermitsHeld + PermitsAssigned + available_permits = max_concurrency)
    /\ [][(\/ available_permits' > available_permits
           \/ \E c \in Callers :
                 acqPc[c] = "waiting" /\ acqPc'[c] = "assigned")
            => \E d \in Callers :
                  \/ permitRefs[d] >= 1 /\ permitRefs'[d] = 0
                  \/ acqPc[d] = "assigned"
                       /\ acqPc'[d] \in {"idle", "none"}]_vars
    /\ [][\A c \in Callers :
            /\ (acqPc[c] # "some" /\ acqPc'[c] = "some")
                  => (acqPc[c] = "assigned" \/ available_permits > 0)
            /\ (AcquireStart(c) /\ ~is_closed /\ available_permits = 0)
                  => acqPc'[c] = "waiting"]_vars

\* C17 witness: all the N = MaxConcurrency permits are held, one of them
\* through a VmPermit and its clone, and an acquire is waiting for a slot.
C17_Witness ==
    /\ max_concurrency = MaxConcurrency
    /\ PermitsHeld = max_concurrency
    /\ \E c \in Callers : permitRefs[c] = MaxRefs
    /\ \E c \in Callers : acqPc[c] = "waiting"
    /\ ~is_closed

\* C18: once close() has been called no caller obtains a permit: an
\* acquire that starts after close returns None, an acquire that was
\* waiting returns None (or is abandoned by its caller) and does return;
\* close() itself takes no permit away from its holders.
C18_NoPermitAfterClose ==
    /\ [][is_closed =>
            \A c \in Callers :
               /\ permitRefs'[c] > 0 => permitRefs[c] > 0
               /\ acqPc'[c] = "some" => acqPc[c] = "some"
               /\ AcquireStart(c) => acqPc'[c] = "none"
               /\ acqPc[c] \in {"waiting", "assigned"}
                     => acqPc'[c] \in {acqPc[c], "none", "idle"}]_vars
    /\ [][(~is_closed /\ is_closed') => permitRefs' = permitRefs]_vars
    /\ is_closed ~> (\A c \in Callers : acqPc[c] \notin {"waiting", "assigned"})

\* C18 witness: after close(), an acquire that was waiting at close and an
\* acquire started after close have both returned None, while a permit
\* issued before close is still held.
C18_Witness ==
    /\ is_closed
    /\ \E c \in waitedAtClose : acqPc[c] = "none"
    /\ \E c \in Callers \ waitedAtClose : acqPc[c] = "none"
    /\ \E c \in Callers : permitRefs[c] > 0 /\ acqPc[c] = "some"

\* C19: wait_until_stopped returns only on a closed limiter with every
\* permit back (none held, available_permits = max_concurrency); called on
\* a limiter that is not closed it panics and never waits or returns; and
\* once it is waiting and all permits are dropped, it returns.
C19_WaitUntilStopped ==
    /\ [](barrierPc = "returned" =>
            /\ is_closed
            /\ PermitsHeld = 0
            /\ available_permits = max_concurrency)
    /\ [][(barrierPc = "idle" /\ barrierPc' # "idle") =>
            barrierPc' = (IF is_closed THEN "polling" ELSE "panicked")]_vars
    /\ [][barrierPc = "panicked" => barrierPc' = "panicked"]_vars
    /\ (barrierPc = "polling" /\ PermitsHeld = 0) ~> (barrierPc = "returned")

\* C19 witness: wait_until_stopped has returned on a limiter that was
\* closed while all its slots were taken and acquire calls were waiting.
C19_Witness ==
    /\ barrierPc = "returned"
    /\ waitedAtClose # {}
    /\ max_concurrency = MaxConcurrency

\* ==== execution sandbox: BlockStartInfo ==================================
\* first_miniblock: last_soft_pruned_miniblock + 1, or 0 when it is None.
first_miniblock(info) == IF info = NoPruned THEN 0 ELSE info + 1

\* BlockStartInfoInner::is_expired, on the age of the cache: "fresh" is
\* now - cached_at <= MAX_CACHE_AGE, "expired" is more than MAX_CACHE_AGE +
\* MAX_RANDOM_DELAY, and in between ("aging") the random draw rnd decides.
is_expired(age, rnd) ==
    CASE age = "fresh" -> FALSE
      [] age = "aging" -> rnd
      [] age = "expired" -> TRUE

\* Mutant: the first retained miniblock is reported as pruned too.
ensure_not_pruned_block_Inclusive(block, first_mb) ==
    IF block.kind = "Number" /\ block.n <= first_mb
    THEN [tag |-> "Pruned", first |-> first_mb]
    ELSE IF block.kind = "Earliest" /\ first_mb > 0
    THEN [tag |-> "Pruned", first |-> first_mb]
    ELSE [tag |-> "Ok", first |-> NoFirst]

\* The match of ensure_not_pruned_block on the block id.
ensure_not_pruned_block(block, first_mb) ==
    IF block.kind = "Number" /\ block.n < first_mb
    THEN [tag |-> "Pruned", first |-> first_mb]
    ELSE IF block.kind = "Earliest" /\ first_mb > 0
    THEN [tag |-> "Pruned", first |-> first_mb]
    ELSE [tag |-> "Ok", first |-> NoFirst]

\* A call of ensure_not_pruned_block(block, storage): get_pruning_info
\* answers from the cache, or, when the cache is expired, reads Postgres
\* (dbOk: the query succeeds) and refreshes the cache; a failed query
\* is returned as Err(Database).
EnsureNotPrunedBlock(block, rnd, dbOk) ==
    /\ callBlock' = block
    /\ IF is_expired(cacheAge, rnd) /\ ~dbOk
       THEN /\ callResult' = [tag |-> "Database", first |-> NoFirst]
            /\ UNCHANGED <<cached_pruned, cacheAge>>
       ELSE /\ cached_pruned' = (IF is_expired(cacheAge, rnd) THEN db_pruned
                                 ELSE cached_pruned)
            /\ cacheAge' = (IF is_expired(cacheAge, rnd) THEN "fresh"
                            ELSE cacheAge)
            /\ callResult' = ensure_not_pruned_block(
                                 block, first_miniblock(cached_pruned'))
    /\ UNCHANGED db_pruned
    /\ UNCHANGED <<fetcherVars, limiterVars, miniblockVars>>

\* Time passes: the cache gets older.
Tick ==
    /\ cacheAge # "expired"
    /\ cacheAge' = (IF cacheAge = "fresh" THEN "aging" ELSE "expired")
    /\ UNCHANGED <<db_pruned, cached_pruned, callBlock, callResult>>
    /\ UNCHANGED <<fetcherVars, limiterVars, miniblockVars>>

\* The node soft-prunes more miniblocks.
PruneDb(p) ==
    /\ p > db_pruned
    /\ db_pruned' = p
    /\ UNCHANGED <<cached_pruned, cacheAge, callBlock, callResult>>
    /\ UNCHANGED <<fetcherVars, limiterVars, miniblockVars>>

PruneInit ==
    /\ FetcherIdle
    /\ LimiterNew(MaxConcurrency)
    /\ \E p \in PrunedSet : BlockStartInfoNew(p)
    /\ MiniblockUpdatesNew

PruneNext ==
    \/ \E block \in BlockIds, rnd \in BOOLEAN, dbOk \in BOOLEAN :
          EnsureNotPrunedBlock(block, rnd, dbOk)
    \/ Tick
    \/ \E p \in PrunedSet : PruneDb(p)

Issued == {n \in Blocks : fetchSt[n] # "none"}

\* C22: the producer creates the handles for first, first + 1, ... in
\* ascending order, each once, never for a number >= end; the channel
\* holds them in that order and the consumer takes them from its head, so
\* the handle it joins is always the one of the queue cursor; and when a
\* bounded fetch_blocks has returned Ok, the fetches issued are as many as
\* the blocks committed, end - first, and no handle is left.
C22_HandlesInOrder ==
    /\ [](\A n \in Issued :
            /\ first <= n
            /\ EndIsSome => n < End
            /\ \A m \in first..n : m \in Issued)
    /\ [][\A n \in Blocks :
            /\ (fetchSt[n] = "none" /\ fetchSt'[n] # "none")
                  => (n = next /\ \A m \in Blocks : m > n => m \notin Issued)
            /\ fetchSt[n] \in {"ok", "err", "canceled"}
                  => fetchSt'[n] = fetchSt[n]]_vars
    /\ [](\A i \in 1..(Len(chan) - 1) : chan[i + 1] = chan[i] + 1)
    /\ [][chan' # chan =>
            \/ chan' = Append(chan, next)
            \/ chan # <<>> /\ chan' = Tail(chan) /\ consN' = Head(chan)]_vars
    /\ [](consPc = "join" => consN = queueNext)
    /\ []((backfillOk /\ mode = "p2p") =>
            /\ Cardinality(Issued) = Len(committed)
            /\ Len(committed) = (IF End > first THEN End - first ELSE 0)
            /\ chan = <<>>)

\* C22 witness: a bounded fetch_blocks has returned Ok after issuing and
\* committing every block from 0 up to its end.
C22_Witness ==
    /\ backfillOk
    /\ mode = "p2p"
    /\ first = 0
    /\ Issued = Blocks
    /\ Len(committed) = MaxBlock + 1

\* C23: a permanent failure of the per-block fetch of block n keeps every
\* block with number >= n out of the queue for the rest of the run, also
\* when the fetches of later blocks have already returned Ok.
C23_NothingPastFailedFetch ==
    /\ [](\A n \in Blocks :
            fetchSt[n] = "err" => \A i \in DOMAIN committed : committed[i] < n)
    /\ [][\A n \in Blocks : fetchSt[n] = "err" => fetchSt'[n] = "err"]_vars

\* C23 witness: the run has returned after the fetch of block 1 failed
\* while the fetch of block 2 had returned Ok; only block 0 is in the queue.
C23_Witness ==
    /\ result # "running"
    /\ fetchSt[1] = "err"
    /\ fetchSt[2] = "ok"
    /\ committed = <<0>>

\* fetch_blocks has been entered with end = Some(e) and the queue cursor
\* already at or past e.
NothingToFetch == mode = "p2p" /\ first >= 0 /\ End <= first

\* C24: fetch_blocks with end = Some(e) and the cursor already >= e issues
\* no fetch, appends nothing, leaves the cursor where it was, does not
\* wait for persistence, and returns Ok, also under cancellation.
C24_EmptyRangeReturnsOk ==
    /\ [](NothingToFetch =>
            /\ Issued = {}
            /\ chan = <<>>
            /\ committed = <<>>
            /\ queueNext = first
            /\ innerErr = "none"
            /\ rootPc # "wait_for_payload")
    /\ [][(NothingToFetch /\ rootPc = "fetch_blocks" /\ rootPc' # rootPc)
            => backfillOk']_vars
    /\ (NothingToFetch /\ rootPc = "fetch_blocks") ~> backfillOk

\* C24 witness: fetch_blocks has returned Ok with the cursor past its end.
C24_Witness ==
    /\ NothingToFetch
    /\ End < first
    /\ backfillOk
    /\ ctxCanceled

\* The initial fetch_genesis of run_p2p has failed with an error other
\* than cancellation (no other task can fail fatally before a genesis is
\* known: the monitor and the fetches do not exist yet).
StartupGenesisFailed == mode = "p2p" /\ genesis = NoGenesis /\ fatal # "none"

\* C25 as stated: after a failure of the initial genesis fetch the run
\* returns that error.
C25_StartupFailureAlwaysErr ==
    (result # "running" /\ StartupGenesisFailed) => result = "Err"

\* C25 amended: the initial genesis fetch of run_p2p is not retried; its
\* failure ends the root task with the error before a payload queue exists
\* and before any block is fetched or committed, and, when the caller does
\* not cancel the context, the run returns an error; the same failure in
\* the fork monitor leaves the monitor running and records no error.
C25_StartupGenesisNotRetried ==
    /\ [][FetchGenesisStartup(NoGenesis) =>
            /\ rootPc' = "done"
            /\ fatal' # "none"
            /\ outerErr' # "none"]_vars
    /\ [](StartupGenesisFailed =>
            /\ rootPc = "done"
            /\ first < 0
            /\ prodPc = "none" /\ consPc = "none"
            /\ monitorPc = "none" /\ runnerPc = "none"
            /\ Issued = {}
            /\ committed = <<>>
            /\ ~backfillOk)
    /\ []((StartupGenesisFailed /\ result # "running" /\ ~ctxCanceled)
            => result = "Err")
    /\ [][MonitorLoop(NoGenesis) =>
            /\ monitorPc' \in {"loop", "stale"}
            /\ outerErr' = outerErr
            /\ fatal' = fatal]_vars

\* C25 witness: the run has returned an error after the failure of its
\* initial genesis fetch, without cancellation by the caller.
C25_Witness ==
    /\ StartupGenesisFailed
    /\ result = "Err"
    /\ ~ctxCanceled
    /\ fatal = "live"

\* ---- state keeper: MiniblockUpdates ------------------------------------
\* hash_bytecode: the hash of a bytecode (an injective stand-in).
hash_bytecode(b) == 10 + b

\* VmEvent: an event that marks the bytecode with a hash as known, or any
\* other event.
VmEvents == {[kind |-> "other", hash |-> 0]}
               \cup {[kind |-> "known", hash |-> hash_bytecode(b)] :
                        b \in Bytecodes}

\* VmExecutionResultAndLogs: the result and the four vectors of its logs.
ExecutionResults ==
    [result : {"Success", "Revert", "Halt"},
     events : SeqsUpTo(VmEvents, MaxLogs),
     storage_logs : SeqsUpTo({"storage_log"}, MaxLogs),
     user_l2_to_l1_logs : SeqsUpTo({"user_log"}, MaxLogs),
     system_l2_to_l1_logs : SeqsUpTo({"system_log"}, MaxLogs)]

\* BlockGasCount and ExecutionMetrics of one call, each as one number.
GasCounts == 1..MaxGas

\* extract_bytecodes_marked_as_known(&events): the hashes of the events
\* that mark a bytecode as known, in the order of the events.
extract_bytecodes_marked_as_known(evs) ==
    LET known == SelectSeq(evs, LAMBDA e : e.kind = "known")
    IN  [i \in 1..Len(known) |-> known[i].hash]

\* tx.bootloader_encoding_size(): a number of bytes that depends on the
\* transaction alone (the weights stand for the encoding).
bootloader_encoding_size(tx) ==
    32 * (6 + tx.data + Cardinality(tx.factory_deps))

\* zksync_protobuf::repr::encode::<proto::Transaction>(&tx).len(): another
\* number of bytes that depends on the transaction alone.
payload_encoding_len(tx) == 3 + 5 * tx.data + 7 * Cardinality(tx.factory_deps)

\* tx.hash().
tx_hash(tx) == <<"hash", tx.data, tx.factory_deps>>

\* Mutant: the vector is overwritten with the new entries.
VecExtendOverwrite(vec, items) == items

\* Vec::extend: the entries are appended in their order.
VecExtend(vec, items) == vec \o items

\* The map of the transaction's factory deps: hash_bytecode(b) -> b.
tx_factory_deps(tx) == {<<hash_bytecode(b), b>> : b \in tx.factory_deps}

\* The lazy iterator known_bytecodes panics ("Failed to get factory deps
\* on tx") at the first saved hash that is not a key of tx_factory_deps:
\* the position of that hash, or 0 when there is none.
FirstMissingDep(saved, deps) ==
    LET missing == {i \in 1..Len(saved) :
                      ~\E d \in deps : d[1] = saved[i]}
    IN  IF missing = {} THEN 0
        ELSE CHOOSE i \in missing : \A j \in missing : i <= j

\* new_factory_deps.extend(known_bytecodes), up to the first n saved
\* hashes.
ExtendFactoryDeps(map, saved, deps, n) ==
    map \cup {d \in deps : \E i \in 1..n : saved[i] = d[1]}

\* The TransactionExecutionResult pushed for tx.
TransactionExecutionResult(tx, r, metrics) ==
    [hash |-> tx_hash(tx),
     transaction |-> tx,
     execution_info |-> metrics,
     execution_status |-> IF r.result # "Success" THEN "Failure"
                          ELSE "Success",
     has_revert_reason |-> r.result # "Success"]

\* extend_from_fictive_transaction(result, l1_gas_count, metrics).
ExtendFromFictiveTransaction(r, gas, metrics) ==
    /\ ~panicked
    /\ Len(calls) < MaxCalls
    /\ events' = VecExtend(events, r.events)
    /\ storage_logs' = VecExtend(storage_logs, r.storage_logs)
    /\ user_l2_to_l1_logs' = VecExtend(user_l2_to_l1_logs, r.user_l2_to_l1_logs)
    /\ system_l2_to_l1_logs' =
          VecExtend(system_l2_to_l1_logs, r.system_l2_to_l1_logs)
    /\ l1_gas_count' = l1_gas_count + gas
    /\ block_execution_metrics' = block_execution_metrics + metrics
    /\ calls' = Append(calls, [kind |-> "fictive", tx |-> NoTransaction,
                               result |-> r, gas |-> gas,
                               metrics |-> metrics])
    /\ UNCHANGED <<executed_transactions, new_factory_deps, txs_encoding_size,
                   payload_encoding_size, panicked>>
    /\ UNCHANGED <<fetcherVars, limiterVars, pruneVars>>

\* extend_from_executed_transaction(tx, result, gas, metrics, ..): the
\* events and the L2-to-L1 logs are appended first; then the bytecodes
\* marked as known are saved, which panics when one of them is not among
\* the factory deps of tx and leaves the rest of the call undone.
ExtendFromExecutedTransaction(tx, r, gas, metrics) ==
    /\ ~panicked
    /\ Len(calls) < MaxCalls
    /\ LET saved_factory_deps == extract_bytecodes_marked_as_known(r.events)
           deps == tx_factory_deps(tx)
           miss == FirstMissingDep(saved_factory_deps, deps)
       IN  /\ events' = VecExtend(events, r.events)
           /\ user_l2_to_l1_logs' =
                 VecExtend(user_l2_to_l1_logs, r.user_l2_to_l1_logs)
           /\ system_l2_to_l1_logs' =
                 VecExtend(system_l2_to_l1_logs, r.system_l2_to_l1_logs)
           /\ calls' = Append(calls, [kind |-> "executed", tx |-> tx,
                                      result |-> r, gas |-> gas,
                                      metrics |-> metrics])
           /\ IF miss # 0
              THEN /\ new_factory_deps' =
                        ExtendFactoryDeps(new_factory_deps,
                                          saved_factory_deps, deps, miss - 1)
                   /\ panicked' = TRUE
                   /\ UNCHANGED <<l1_gas_count, block_execution_metrics,
                                  txs_encoding_size, payload_encoding_size,
                                  storage_logs, executed_transactions>>
              ELSE /\ new_factory_deps' =
                        ExtendFactoryDeps(new_factory_deps,
                                          saved_factory_deps, deps,
                                          Len(saved_factory_deps))
                   /\ l1_gas_count' = l1_gas_count + gas
                   /\ block_execution_metrics' =
                        block_execution_metrics + metrics
                   /\ txs_encoding_size' =
                        txs_encoding_size + bootloader_encoding_size(tx)
                   /\ payload_encoding_size' =
                        payload_encoding_size + payload_encoding_len(tx)
                   /\ storage_logs' = VecExtend(storage_logs, r.storage_logs)
                   /\ executed_transactions' =
                        Append(executed_transactions,
                               TransactionExecutionResult(tx, r, metrics))
                   /\ UNCHANGED panicked
    /\ UNCHANGED <<fetcherVars, limiterVars, pruneVars>>

MiniblockInit ==
    /\ FetcherIdle
    /\ LimiterNew(MaxConcurrency)
    /\ BlockStartInfoNew(NoPruned)
    /\ MiniblockUpdatesNew

MiniblockNext ==
    \/ \E tx \in Transactions, r \in ExecutionResults,
          gas \in GasCounts, metrics \in GasCounts :
          ExtendFromExecutedTransaction(tx, r, gas, metrics)
    \/ \E r \in ExecutionResults, gas \in GasCounts, metrics \in GasCounts :
          ExtendFromFictiveTransaction(r, gas, metrics)

\* The calls that have returned: all but one that panicked.
Returned == IF panicked THEN SubSeq(calls, 1, Len(calls) - 1) ELSE calls

\* The calls of extend_from_executed_transaction that have returned.
ExecutedCalls == SelectSeq(Returned, LAMBDA c : c.kind = "executed")

RECURSIVE SumSeq(_)
SumSeq(q) == IF q = <<>> THEN 0 ELSE Head(q) + SumSeq(Tail(q))

\* Every bytecode that the events of r mark as known is among the factory
\* deps of tx.
MarkedKnownAreDeps(tx, r) ==
    \A i \in DOMAIN r.events :
       r.events[i].kind = "known"
          => \E b \in tx.factory_deps : hash_bytecode(b) = r.events[i].hash

\* This step is a call of extend_from_executed_transaction.
ExecutedCallStep ==
    /\ Len(calls') = Len(calls) + 1
    /\ calls'[Len(calls')].kind = "executed"

\* What C21 says of one call c: the transaction is appended last, the two
\* sizes grow by the sizes of the transaction, the four vectors by the
\* numbers of entries in the logs of the result.
GrowsBy(c) ==
    /\ Len(executed_transactions') = Len(executed_transactions) + 1
    /\ SubSeq(executed_transactions', 1, Len(executed_transactions))
          = executed_transactions
    /\ executed_transactions'[Len(executed_transactions')].transaction = c.tx
    /\ txs_encoding_size'
          = txs_encoding_size + 32 * (6 + c.tx.data
                                        + Cardinality(c.tx.factory_deps))
    /\ payload_encoding_size'
          = payload_encoding_size + 3 + 5 * c.tx.data
              + 7 * Cardinality(c.tx.factory_deps)
    /\ Len(events') = Len(events) + Len(c.result.events)
    /\ Len(storage_logs') = Len(storage_logs) + Len(c.result.storage_logs)
    /\ Len(user_l2_to_l1_logs')
          = Len(user_l2_to_l1_logs) + Len(c.result.user_l2_to_l1_logs)
    /\ Len(system_l2_to_l1_logs')
          = Len(system_l2_to_l1_logs) + Len(c.result.system_l2_to_l1_logs)

\* C21 as stated: every call of extend_from_executed_transaction, for any
\* transaction and result, extends the accumulator by the transaction and
\* by the logs of the result.
C21_EveryCallExtends ==
    [][ExecutedCallStep => GrowsBy(calls'[Len(calls')])]_vars

\* C21 amended: a call of extend_from_executed_transaction whose result
\* marks as known only bytecodes among the factory deps of the transaction
\* appends the transaction last, adds its bootloader encoding size and its
\* protobuf encoding length to the two sizes, and extends the events, the
\* storage logs and the user and system L2-to-L1 logs by the entries of
\* the result's logs (by nothing for an empty result); any other call
\* panics without pushing the transaction.  After any sequence of calls
\* that returned, the totals are the sums over the calls.
C21_ExtendFromExecutedTransaction ==
    /\ [][ExecutedCallStep =>
            LET c == calls'[Len(calls')]
            IN  IF MarkedKnownAreDeps(c.tx, c.result)
                THEN GrowsBy(c) /\ ~panicked'
                ELSE /\ panicked'
                     /\ executed_transactions' = executed_transactions
                     /\ txs_encoding_size' = txs_encoding_size
                     /\ payload_encoding_size' = payload_encoding_size]_vars
    /\ [](/\ Len(executed_transactions) = Len(ExecutedCalls)
          /\ \A i \in DOMAIN ExecutedCalls :
                executed_transactions[i].transaction = ExecutedCalls[i].tx
          /\ txs_encoding_size
                = SumSeq([i \in DOMAIN ExecutedCalls |->
                            32 * (6 + ExecutedCalls[i].tx.data
                                    + Cardinality(ExecutedCalls[i].tx.factory_deps))])
          /\ payload_encoding_size
                = SumSeq([i \in DOMAIN ExecutedCalls |->
                            3 + 5 * ExecutedCalls[i].tx.data
                              + 7 * Cardinality(ExecutedCalls[i].tx.factory_deps)])
          /\ Len(storage_logs)
                = SumSeq([i \in DOMAIN Returned |->
                            Len(Returned[i].result.storage_logs)])
          /\ Len(events)
                = SumSeq([i \in DOMAIN calls |-> Len(calls[i].result.events)])
          /\ Len(user_l2_to_l1_logs)
                = SumSeq([i \in DOMAIN calls |->
                            Len(calls[i].result.user_l2_to_l1_logs)])
          /\ Len(system_l2_to_l1_logs)
                = SumSeq([i \in DOMAIN calls |->
                            Len(calls[i].result.system_l2_to_l1_logs)]))

\* C21 witness: two calls with different transactions have returned, one
\* of them with a bytecode marked as known, and every vector has grown.
C21_Witness ==
    /\ ~panicked
    /\ Len(executed_transactions) = MaxCalls
    /\ executed_transactions[1].transaction # executed_transactions[2].transaction
    /\ new_factory_deps # {}
    /\ Len(events) = MaxCalls
    /\ Len(storage_logs) = MaxCalls
    /\ Len(user_l2_to_l1_logs) >= 1
    /\ Len(system_l2_to_l1_logs) >= 1

Spec == Init /\ [][Next]_vars

\* The run with the answers to the background loops recorded.
ObsSpec == ObsInit /\ [][Next]_vars

\* The scheduler runs every task that can take a step; the store persists
\* what is committed; and, as the liveness claims assume, the upstream
\* eventually reports its height and eventually serves every block.
Fairness ==
    /\ WF_vars(\E r \in StartGenesisSet : FetchGenesisStartup(r))
    /\ WF_vars(NewPayloadQueue(TRUE))
    /\ WF_vars(ProducerSpawn)
    /\ WF_vars(ProducerSend)
    /\ WF_vars(ProducerExit)
    /\ WF_vars(ConsumerRecv)
    /\ WF_vars(ConsumerJoinSend(TRUE))
    /\ WF_vars(ConsumerExit)
    /\ WF_vars(ScopeReturn)
    /\ WF_vars(WaitForPayload(TRUE))
    /\ WF_vars(Persist)
    /\ WF_vars(Poll(MaxBlock))
    /\ \A n \in Blocks : WF_vars(FetchReply(n, "some"))

LiveSpec == Init /\ [][Next]_vars /\ Fairness

\* The limiter with its callers and its barrier.
LimiterSpec == LimiterInit /\ [][LimiterNext]_vars

\* Every acquire call that can be polled is polled, and the sleep of
\* wait_until_stopped ends.
LimiterFairness ==
    /\ \A c \in Callers : WF_vars(AcquireWake(c))
    /\ WF_vars(BarrierPoll)

LimiterLiveSpec == LimiterInit /\ [][LimiterNext]_vars /\ LimiterFairness

\* BlockStartInfo with its callers, the clock and the pruning of the node.
PruneSpec == PruneInit /\ [][PruneNext]_vars

\* One MiniblockUpdates and the calls that extend it.
MiniblockSpec == MiniblockInit /\ [][MiniblockNext]_vars
====
